---- MODULE Spec2Model ----
(***************************************************************************)
(* Model of asmo-01-health: the JSON history store (utils/storage.py),     *)
(* the threshold evaluator (utils/metrics.py), the hourly monitor          *)
(* (monitor.py) and the daily reporter (reporter.py).                      *)
(*                                                                         *)
(* Time is counted in whole hours: timedelta(hours=24) is 24 and           *)
(* timedelta(days=retention_days) is retention_days * 24.                  *)
(***************************************************************************)
EXTENDS Integers, Sequences, FiniteSets, TLC

VARIABLES
    now,        \* datetime.now(), in hours
    file,       \* the history file: [content, data]
    nextId,     \* payload of the next entry handed to add_entry
    ret,        \* what the last storage call was, saw and returned
    pc,         \* overlapping invocations: where each add_entry stands
    loc,        \* overlapping invocations: each add_entry's local variables
    committed,  \* entries whose add_entry has returned (or found on disk)
    durable,    \* the history last written completely
    thr,        \* check_thresholds: its arguments and its result
    rep,        \* the reporter's analysis: its window and its results
    mon         \* the monitor run: its inputs and its outcome

storeVars == <<now, file, nextId, ret>>
concVars == <<pc, loc, committed, durable>>
pureVars == <<thr, rep, mon>>
vars == <<now, file, nextId, ret, pc, loc, committed, durable, thr, rep, mon>>

----------------------------------------------------------------------------
(* Bounds of the model *)

MaxNow == 2
MaxAppends == 3
MaxRuns == 2

----------------------------------------------------------------------------
(* utils/storage.py *)

retention_days == 7
Last24h == 24
HoursPerDay == 24

\* timedelta(days=d), in hours.
timedelta_days(d) == d * HoursPerDay

\* A stored 'timestamp' value: an ISO string of a naive datetime, a string
\* that is no ISO date, or no 'timestamp' key at all.
NoTimestamp == [kind |-> "missing", t |-> 0]
BadTimestamp == [kind |-> "bad", t |-> 0]

\* A 'timestamp' that is a number or null.
NonStringTimestamp == [kind |-> "nonstr", t |-> 0]

\* An element of the list that is no JSON object (a string, a number):
\* entry['timestamp'] has nothing to look up.
NotAnObject == [kind |-> "notobject", t |-> 0]

\* datetime.isoformat(): the string that fromisoformat parses back to t.
isoformat(t) == [kind |-> "iso", t |-> t]

\* An ISO string with a UTC offset ("...+00:00"): it parses to an aware
\* datetime.
isoformat_aware(t) == [kind |-> "aware", t |-> t]

\* datetime.fromisoformat(entry['timestamp']) and the comparison with the
\* naive cutoff inside the try blocks: the parsed time, or the exception the
\* lookup, the parse or the comparison raises.
fromisoformat(entry) ==
    CASE entry.timestamp.kind = "iso" ->
            [ok |-> TRUE, t |-> entry.timestamp.t, exc |-> "none"]
      [] entry.timestamp.kind = "missing" ->
            [ok |-> FALSE, t |-> 0, exc |-> "KeyError"]
      [] entry.timestamp.kind \in {"aware", "nonstr", "notobject"} ->
            [ok |-> FALSE, t |-> 0, exc |-> "TypeError"]
      [] OTHER ->
            [ok |-> FALSE, t |-> 0, exc |-> "ValueError"]

\* except (KeyError, ValueError): everything else leaves the loop and the
\* method.
Uncaught(history) ==
    IF \E i \in 1..Len(history) :
          fromisoformat(history[i]).exc \notin {"none", "KeyError", "ValueError"}
    THEN "TypeError"
    ELSE "none"

\* The file as json.load sees it: a JSON list, or bytes that do not decode
\* (a file opened with 'w' and not yet dumped is empty).
JsonFile(data) == [content |-> "json", data |-> data]

\* open(self.history_file, 'w') leaves the file empty until the dump.
EmptyFile == [content |-> "empty", data |-> <<>>]

\* Bytes of one dump lying over a longer earlier dump, or the part of a dump
\* written before it failed: no JSON document.
TornFile == [content |-> "torn", data |-> <<>>]

\* No file at the path.
MissingFile == [content |-> "missing", data |-> <<>>]

\* A JSON document that is no list.
NotListFile == [content |-> "notlist", data |-> <<>>]

\* Bytes that are no UTF-8 text: f.read() inside json.load cannot decode them.
UndecodableFile == [content |-> "undecodable", data |-> <<>>]

\* return data if isinstance(data, list) else []
\* except (json.JSONDecodeError, FileNotFoundError): return []
load_history(f) == IF f.content = "json" THEN f.data ELSE <<>>

\* The exception load_history lets through: UnicodeDecodeError is neither
\* of the two it catches.
load_history_exc(f) ==
    IF f.content = "undecodable" THEN "UnicodeDecodeError" ELSE "none"

_write_history(data) == JsonFile(data)

\* Mutant of CleanupKeeps: the cutoff compared with > instead of >=.
CleanupKeeps_StrictCutoff(entry, t) ==
    LET r == fromisoformat(entry)
    IN  IF r.ok THEN r.t > t - timedelta_days(retention_days) ELSE TRUE

\* except (KeyError, ValueError): filtered.append(entry)
CleanupKeeps(entry, t) ==
    LET r == fromisoformat(entry)
    IN  IF r.ok THEN r.t >= t - timedelta_days(retention_days) ELSE TRUE

_cleanup_old_entries(history, t) ==
    SelectSeq(history, LAMBDA e : CleanupKeeps(e, t))

\* Mutant of Last24hKeeps: the except branch of _cleanup_old_entries
\* (append) in place of continue.
Last24hKeeps_AppendOnError(entry, t) ==
    LET r == fromisoformat(entry)
    IN  IF r.ok THEN r.t >= t - Last24h ELSE TRUE

\* except (KeyError, ValueError): continue
Last24hKeeps(entry, t) ==
    LET r == fromisoformat(entry)
    IN  IF r.ok THEN r.t >= t - Last24h ELSE FALSE

get_last_24h(f, t) ==
    SelectSeq(load_history(f), LAMBDA e : Last24hKeeps(e, t))

BetweenKeeps(entry, start, end) ==
    LET r == fromisoformat(entry)
    IN  IF r.ok THEN start <= r.t /\ r.t <= end ELSE FALSE

get_entries_between(f, start, end) ==
    SelectSeq(load_history(f), LAMBDA e : BetweenKeeps(e, start, end))

\* What get_last_24h and get_entries_between raise: load_history's
\* exception, or the one a stored element raises in the loop.
window_exc(f) ==
    IF load_history_exc(f) # "none" THEN load_history_exc(f)
    ELSE Uncaught(load_history(f))

get_latest_entry(f) ==
    LET history == load_history(f)
    IN  IF history # <<>> THEN <<history[Len(history)]>> ELSE <<>>

\* if 'timestamp' not in entry: entry['timestamp'] = datetime.now().isoformat()
EnsureTimestamp(entry, t) ==
    IF entry.timestamp.kind = "missing"
    THEN [entry EXCEPT !.timestamp = isoformat(t)]
    ELSE entry

\* Mutant of add_entry: every entry without timestamp is stamped, the stored
\* ones too.
add_entry_StampsAll(f, entry, t) ==
    LET history == Append(load_history(f), entry)
    IN  _cleanup_old_entries(
            [i \in 1..Len(history) |-> EnsureTimestamp(history[i], t)], t)

\* add_entry up to the write: load, append, cleanup.
add_entry(f, entry, t) ==
    _cleanup_old_entries(Append(load_history(f), EnsureTimestamp(entry, t)), t)

\* What add_entry raises, all of it before _write_history: the item
\* assignment on an entry that is no dict (line 61), load_history's
\* exception (line 64), or the one an element raises in the cleanup (line 70).
add_entry_exc(f, entry, t) ==
    IF entry.timestamp.kind = "notobject" THEN "TypeError"
    ELSE IF load_history_exc(f) # "none" THEN load_history_exc(f)
    ELSE Uncaught(Append(load_history(f), EnsureTimestamp(entry, t)))

\* Mutant of FileAfterRead: a read that runs the cleanup and writes back.
FileAfterRead_Evicting(f, t) ==
    IF load_history_exc(f) # "none" THEN f
    ELSE _write_history(_cleanup_old_entries(load_history(f), t))

\* load_history opens the file with 'r' and the read methods call nothing
\* that writes: the file after a read.
FileAfterRead(f, t) == f

----------------------------------------------------------------------------
(* Inputs *)

\* Timestamps a caller hands to add_entry at time t: none (the monitor's
\* entries carry datetime.now()), explicit ISO dates 8 days, 6 days and 24
\* hours back and one day ahead, a string that is no date, an ISO date with
\* a UTC offset, a number, and an entry that is no dict at all.
TsOffsets ==
    {0 - timedelta_days(retention_days + 1), 0 - timedelta_days(retention_days - 1),
     0 - Last24h, timedelta_days(1)}

NewTimestamps(t) ==
    {NoTimestamp, BadTimestamp, NonStringTimestamp, NotAnObject, isoformat_aware(t)}
        \cup {isoformat(t + o) : o \in TsOffsets}

\* History files found on disk when the store is constructed: none (the
\* constructor writes []), or one left by an earlier writer: with an entry
\* that has no 'timestamp' key, one whose timestamp carries a UTC offset,
\* one whose timestamp is a number, an element that is no object.
InitialHistories == {<<>>, <<[id |-> 0, timestamp |-> NoTimestamp]>>}

ForeignHistories ==
    {<<[id |-> 0, timestamp |-> ts]>> :
        ts \in {isoformat_aware(0), NonStringTimestamp, NotAnObject}}

\* ... or a file that holds no JSON list.
DamagedFiles == {TornFile, NotListFile, UndecodableFile}

NoCall ==
    [op |-> "none", at |-> 0, on |-> "json", pre |-> <<>>, arg |-> <<>>,
     out |-> <<>>, exc |-> "none"]

\* A call that returned: when it ran, the file it found, the history
\* load_history read from it, its arguments and its result.
Call(op, pre, arg, out) ==
    [op |-> op, at |-> now, on |-> file.content, pre |-> pre, arg |-> arg,
     out |-> out, exc |-> "none"]

\* A call that raised.
Raised(op, pre, arg, exc) ==
    [op |-> op, at |-> now, on |-> file.content, pre |-> pre, arg |-> arg,
     out |-> <<>>, exc |-> exc]

----------------------------------------------------------------------------
(* One invocation at a time: every storage call runs to completion *)

Writers == {"w1", "w2"}

NoLocals == [entry |-> <<>>, history |-> <<>>, data |-> <<>>]

ConcIdle ==
    /\ pc = [p \in Writers |-> "idle"]
    /\ loc = [p \in Writers |-> NoLocals]
    /\ committed = {}
    /\ durable = <<>>

NoRun == [done |-> FALSE]

PureIdle ==
    /\ thr = NoRun
    /\ rep = NoRun
    /\ mon = NoRun

Init ==
    /\ now = 0
    /\ file \in {JsonFile(h) : h \in InitialHistories \cup ForeignHistories}
                    \cup DamagedFiles
    /\ nextId = 1
    /\ ret = NoCall
    /\ ConcIdle
    /\ PureIdle

\* A day passes.
Tick ==
    /\ now < timedelta_days(MaxNow)
    /\ now' = now + timedelta_days(1)
    /\ UNCHANGED <<file, nextId, ret, concVars, pureVars>>

\* test_file.unlink(missing_ok=True): the file is removed under the store.
Unlink ==
    /\ file.content # "missing"
    /\ file' = MissingFile
    /\ ret' = Call("unlink", load_history(file), <<>>, <<>>)
    /\ UNCHANGED <<now, nextId, concVars, pureVars>>

AddEntry ==
    /\ nextId <= MaxAppends
    /\ \E ts \in NewTimestamps(now) :
          LET entry == [id |-> nextId, timestamp |-> ts]
              exc == add_entry_exc(file, entry, now)
          IN  IF exc # "none"
              THEN /\ file' = file
                   /\ ret' = Raised("add_entry", load_history(file), <<entry>>, exc)
              ELSE /\ file' = _write_history(add_entry(file, entry, now))
                   /\ ret' = Call("add_entry", load_history(file),
                                  <<EnsureTimestamp(entry, now)>>, <<>>)
    /\ nextId' = nextId + 1
    /\ UNCHANGED <<now, concVars, pureVars>>

LoadHistory ==
    /\ ret' = IF load_history_exc(file) # "none"
              THEN Raised("load_history", load_history(file), <<>>,
                          load_history_exc(file))
              ELSE Call("load_history", load_history(file), <<>>,
                        load_history(file))
    /\ file' = FileAfterRead(file, now)
    /\ UNCHANGED <<now, nextId, concVars, pureVars>>

GetLast24h ==
    /\ ret' = IF window_exc(file) # "none"
              THEN Raised("get_last_24h", load_history(file), <<>>,
                          window_exc(file))
              ELSE Call("get_last_24h", load_history(file), <<>>,
                        get_last_24h(file, now))
    /\ file' = FileAfterRead(file, now)
    /\ UNCHANGED <<now, nextId, concVars, pureVars>>

GetEntriesBetween ==
    /\ \E start \in {now - Last24h, now}, end \in {now, now + timedelta_days(1)} :
          ret' = IF window_exc(file) # "none"
                 THEN Raised("get_entries_between", load_history(file),
                             <<start, end>>, window_exc(file))
                 ELSE Call("get_entries_between", load_history(file),
                           <<start, end>>, get_entries_between(file, start, end))
    /\ file' = FileAfterRead(file, now)
    /\ UNCHANGED <<now, nextId, concVars, pureVars>>

GetLatestEntry ==
    /\ ret' = IF load_history_exc(file) # "none"
              THEN Raised("get_latest_entry", load_history(file), <<>>,
                          load_history_exc(file))
              ELSE Call("get_latest_entry", load_history(file), <<>>,
                        get_latest_entry(file))
    /\ file' = FileAfterRead(file, now)
    /\ UNCHANGED <<now, nextId, concVars, pureVars>>

Next ==
    \/ Tick
    \/ Unlink
    \/ AddEntry
    \/ LoadHistory
    \/ GetLast24h
    \/ GetEntriesBetween
    \/ GetLatestEntry

Spec == Init /\ [][Next]_vars

----------------------------------------------------------------------------
(* Overlapping invocations: add_entry as the steps the file system sees *)

\* Lines 60-64: the timestamp, then load_history reads the whole file.
CLoad(p) ==
    /\ pc[p] = "idle"
    /\ nextId <= MaxAppends
    /\ \E ts \in {NoTimestamp, isoformat(now - Last24h)} :
          loc' = [loc EXCEPT ![p] =
                    [entry |-> <<EnsureTimestamp([id |-> nextId, timestamp |-> ts], now)>>,
                     history |-> load_history(file),
                     data |-> <<>>]]
    /\ nextId' = nextId + 1
    /\ pc' = [pc EXCEPT ![p] = "loaded"]
    /\ UNCHANGED <<now, file, ret, committed, durable, pureVars>>

\* Lines 67-70 and the open(..., 'w') of line 49, which truncates the file.
COpen(p) ==
    /\ pc[p] = "loaded"
    /\ loc' = [loc EXCEPT ![p].data =
                 _cleanup_old_entries(Append(loc[p].history, loc[p].entry[1]), now)]
    /\ file' = EmptyFile
    /\ pc' = [pc EXCEPT ![p] = "opened"]
    /\ UNCHANGED <<now, nextId, ret, committed, durable, pureVars>>

\* Line 50 and the close: the dump lands at offset 0. On an empty file it is
\* the whole content; over another invocation's bytes it either covers them
\* or leaves their tail behind it.
CDump(p) ==
    /\ pc[p] = "opened"
    /\ \/ file' = _write_history(loc[p].data)
       \/ /\ file.content # "empty"
          /\ file' = TornFile
    /\ durable' = IF file'.content = "json" THEN loc[p].data ELSE durable
    /\ committed' = committed \cup {loc[p].entry[1]}
    /\ loc' = [loc EXCEPT ![p] = NoLocals]
    /\ pc' = [pc EXCEPT ![p] = "idle"]
    /\ UNCHANGED <<now, nextId, ret, pureVars>>

Pending == {loc[p].data : p \in {q \in Writers : pc[q] = "opened"}}

\* A reader run while add_entry calls are under way.
CRead ==
    /\ \E op \in {"load_history", "get_last_24h", "get_latest_entry"} :
          ret' = [op |-> op, at |-> now, on |-> file.content,
                  pre |-> durable, arg |-> Pending,
                  out |-> CASE op = "load_history" -> load_history(file)
                            [] op = "get_last_24h" -> get_last_24h(file, now)
                            [] OTHER -> get_latest_entry(file),
                  exc |-> "none"]
    /\ UNCHANGED <<now, file, nextId, concVars, pureVars>>

InitConc ==
    /\ now = 0
    /\ \E h \in InitialHistories :
          /\ file = JsonFile(h)
          /\ durable = h
          /\ committed = {h[i] : i \in 1..Len(h)}
    /\ nextId = 1
    /\ ret = NoCall
    /\ pc = [p \in Writers |-> "idle"]
    /\ loc = [p \in Writers |-> NoLocals]
    /\ PureIdle

NextConc ==
    \/ \E p \in Writers : CLoad(p)
    \/ \E p \in Writers : COpen(p)
    \/ \E p \in Writers : CDump(p)
    \/ CRead

SpecConc == InitConc /\ [][NextConc]_vars

----------------------------------------------------------------------------
(* Overlapping invocations: HealthStorage(...) as the steps the file       *)
(* system sees, followed by whole add_entry and read calls                 *)

\* Line 30: if not self.history_file.exists()
KExists(p) ==
    /\ pc[p] = "idle"
    /\ pc' = [pc EXCEPT ![p] = IF file.content = "missing" THEN "creating" ELSE "ready"]
    /\ UNCHANGED <<now, file, nextId, ret, loc, committed, durable, pureVars>>

\* Line 31: self._write_history([]), by an invocation that saw no file.
KCreate(p) ==
    /\ pc[p] = "creating"
    /\ file' = _write_history(<<>>)
    /\ durable' = <<>>
    /\ pc' = [pc EXCEPT ![p] = "ready"]
    /\ UNCHANGED <<now, nextId, ret, loc, committed, pureVars>>

\* The monitor's storage.add_entry(metrics), on the store it constructed.
KAddEntry(p) ==
    /\ pc[p] = "ready"
    /\ nextId <= MaxAppends
    /\ LET entry == EnsureTimestamp([id |-> nextId, timestamp |-> NoTimestamp], now)
       IN  /\ file' = _write_history(add_entry(file, entry, now))
           /\ durable' = load_history(file')
           /\ committed' = committed \cup {entry}
    /\ nextId' = nextId + 1
    /\ UNCHANGED <<now, ret, pc, loc, pureVars>>

\* The reporter's reads, on the store it constructed.
KRead(p) ==
    /\ pc[p] = "ready"
    /\ \E op \in {"get_last_24h", "get_latest_entry"} :
          ret' = Call(op, load_history(file), <<p>>,
                      IF op = "get_last_24h" THEN get_last_24h(file, now)
                      ELSE get_latest_entry(file))
    /\ UNCHANGED <<now, file, nextId, concVars, pureVars>>

\* The invocation ends; the next one constructs its own store.
KExit(p) ==
    /\ pc[p] = "ready"
    /\ pc' = [pc EXCEPT ![p] = "idle"]
    /\ UNCHANGED <<now, file, nextId, ret, loc, committed, durable, pureVars>>

\* The history file does not exist yet, or holds a history.
InitConstruct ==
    /\ now = 0
    /\ \/ /\ file = MissingFile
          /\ durable = <<>>
          /\ committed = {}
       \/ \E h \in InitialHistories :
             /\ file = JsonFile(h)
             /\ durable = h
             /\ committed = {h[i] : i \in 1..Len(h)}
    /\ nextId = 1
    /\ ret = NoCall
    /\ pc = [p \in Writers |-> "idle"]
    /\ loc = [p \in Writers |-> NoLocals]
    /\ PureIdle

NextConstruct ==
    \/ \E p \in Writers : KExists(p)
    \/ \E p \in Writers : KCreate(p)
    \/ \E p \in Writers : KAddEntry(p)
    \/ \E p \in Writers : KRead(p)
    \/ \E p \in Writers : KExit(p)

SpecConstruct == InitConstruct /\ [][NextConstruct]_vars

----------------------------------------------------------------------------
(* Claims about the history store *)

Range(seq) == {seq[i] : i \in 1..Len(seq)}

Parses(entry) == fromisoformat(entry).ok

TimeOf(entry) == fromisoformat(entry).t

\* The last call was op and it returned.
Returned(op) == ret.op = op /\ ret.exc = "none"

Horizon == timedelta_days(retention_days)

\* C1: after add_entry on a store with horizon retention_days, the persisted
\* history holds no entry whose timestamp parses and is older than
\* now - retention_days, and every entry stored before the call whose
\* timestamp is within the horizon is still there, whatever the number of
\* entries and of appends.
C1_AgeBoundedRetention ==
    Returned("add_entry") =>
        /\ \A e \in Range(load_history(file)) :
              Parses(e) => TimeOf(e) >= ret.at - Horizon
        /\ \A e \in Range(ret.pre) :
              (Parses(e) /\ TimeOf(e) >= ret.at - Horizon)
                  => e \in Range(load_history(file))

\* An append that evicted an 8-day-old entry and kept a younger one, after
\* all the appends the bound allows.
C1_Witness ==
    /\ Returned("add_entry")
    /\ nextId > MaxAppends
    /\ \E e \in Range(ret.pre) :
          /\ Parses(e) /\ TimeOf(e) = ret.at - timedelta_days(retention_days + 1)
          /\ e \notin Range(load_history(file))
    /\ \E e \in Range(ret.pre) :
          /\ Parses(e) /\ TimeOf(e) >= ret.at - Horizon
          /\ e \in Range(load_history(file))

\* C2: when add_entry invocations on the same file overlap, the store after
\* all of them have returned holds every new entry and every in-horizon
\* entry that was there before.
C2_NoLostUpdate ==
    (\A p \in Writers : pc[p] = "idle") =>
        \A e \in committed :
            CleanupKeeps(e, now) => e \in Range(load_history(file))

\* C3: a reader that runs while add_entry is writing returns what it would
\* return on the complete history before the write or on the complete
\* history after it.
C3_AtomicWriteVisibility ==
    ret.op \in {"load_history", "get_last_24h", "get_latest_entry"} =>
        \E h \in {ret.pre} \cup ret.arg :
            ret.out = CASE ret.op = "load_history" -> h
                        [] ret.op = "get_last_24h" -> get_last_24h(JsonFile(h), ret.at)
                        [] OTHER -> get_latest_entry(JsonFile(h))

\* C9: get_last_24h returns, in storage order, exactly the stored entries
\* whose timestamp lies in [now - 24h, now].
C9_WindowQueryBounds ==
    Returned("get_last_24h") =>
        ret.out = SelectSeq(ret.pre, LAMBDA e :
                      Parses(e) /\ ret.at - Last24h <= TimeOf(e) /\ TimeOf(e) <= ret.at)

Unparsable(entry) == entry.timestamp.kind \in {"missing", "bad"}

\* C10: a stored entry whose timestamp is missing or is no ISO date is kept
\* by eviction (add_entry leaves it in the history) and is never returned by
\* get_last_24h or get_entries_between.
C10_WindowAsymmetry ==
    /\ Returned("add_entry") =>
          \A e \in Range(ret.pre) \cup Range(ret.arg) :
              Unparsable(e) => e \in Range(load_history(file))
    /\ (Returned("get_last_24h") \/ Returned("get_entries_between")) =>
          \A e \in Range(ret.out) : ~Unparsable(e)

\* A window query, after all the appends the bound allows, on a history that
\* still holds an entry without timestamp and one with a non-ISO timestamp,
\* and that returns something.
C10_Witness ==
    /\ ret.op \in {"get_last_24h", "get_entries_between"}
    /\ ret.exc = "none"
    /\ nextId > MaxAppends
    /\ \E e \in Range(ret.pre) : e.timestamp.kind = "missing"
    /\ \E e \in Range(ret.pre) : e.timestamp.kind = "bad"
    /\ ret.out # <<>>

Malformed(entry) ==
    entry.timestamp.kind \in {"missing", "bad", "nonstr", "aware", "notobject"}

\* C11: whatever is wrong with an entry's timestamp (no key, no ISO date, a
\* number or null, an ISO date with a UTC offset) or with the element itself
\* (no object), add_entry, get_last_24h and get_entries_between on a file
\* that holds a JSON list complete without raising; add_entry keeps such an
\* entry and the window queries leave it out.
C11_MalformedEntryNeverCrashes ==
    (ret.op \in {"add_entry", "get_last_24h", "get_entries_between"}
        /\ ret.on = "json") =>
        /\ ret.exc = "none"
        /\ ret.op = "add_entry" =>
              \A e \in Range(ret.pre) \cup Range(ret.arg) :
                  Malformed(e) => e \in Range(load_history(file))
        /\ ret.op # "add_entry" =>
              \A e \in Range(ret.out) : ~Malformed(e)

\* C12: on a file that is missing, is no JSON document or holds a JSON value
\* that is no list, load_history returns [] and raises nothing, and
\* get_last_24h, get_latest_entry and add_entry do what they do on an empty
\* store.
C12_CorruptStorageReadsAsEmpty ==
    ret.on # "json" =>
        /\ ret.op \in {"load_history", "get_last_24h", "get_latest_entry"} =>
              ret.exc = "none" /\ ret.out = <<>>
        /\ ret.op = "add_entry" =>
              /\ ret.exc = add_entry_exc(JsonFile(<<>>), ret.arg[1], ret.at)
              /\ ret.exc = "none" =>
                    file = _write_history(add_entry(JsonFile(<<>>), ret.arg[1], ret.at))

Reads == {"load_history", "get_last_24h", "get_entries_between", "get_latest_entry"}

\* C13: load_history, get_last_24h, get_entries_between and get_latest_entry
\* leave the file and the history in it as they found them, so a second
\* load_history returns what the first returned; no read evicts.
C13_ReadsHaveNoSideEffects ==
    ret.op \in Reads =>
        /\ file.content = ret.on
        /\ load_history(file) = ret.pre
        /\ Returned("load_history") => ret.out = load_history(file)

\* A load_history after all the appends the bound allows, all of them still
\* stored, on a later day than the first append.
C13_Witness ==
    /\ Returned("load_history")
    /\ nextId > MaxAppends
    /\ Len(ret.out) >= MaxAppends
    /\ \E e \in Range(ret.out) : Parses(e) /\ TimeOf(e) < ret.at - Last24h

\* C14: after add_entry(e) has returned, load_history() is not empty and
\* holds e, also when e carries a timestamp of its own.
C14_AppendThenReadBack ==
    Returned("add_entry") =>
        /\ load_history(file) # <<>>
        /\ ret.arg[1] \in Range(load_history(file))

\* C20: after add_entry(e) the stored sequence is the sequence stored before
\* with some entries taken out, the others as they were and in the order
\* they had, followed by e when e is within the horizon.
C20_ExtendedOrPrunedNeverRewritten ==
    Returned("add_entry") =>
        LET e == ret.arg[1]
            post == load_history(file)
        IN  /\ \E S \in SUBSET Range(ret.pre), tail \in {<<>>, <<e>>} :
                  post = SelectSeq(ret.pre, LAMBDA x : x \in S) \o tail
            /\ (Parses(e) /\ TimeOf(e) >= ret.at - Horizon) =>
                  (post # <<>> /\ post[Len(post)] = e)

\* An append, the last the bound allows, that took an entry out, left an
\* entry without timestamp where it was and put the new entry at the end.
C20_Witness ==
    /\ Returned("add_entry")
    /\ nextId > MaxAppends
    /\ \E x \in Range(ret.pre) : x \notin Range(load_history(file))
    /\ ret.pre[1].timestamp.kind = "missing"
    /\ load_history(file)[1] = ret.pre[1]
    /\ load_history(file)[Len(load_history(file))] = ret.arg[1]

\* C24: constructing the store never destroys history: whatever
\* invocations construct a store on the path while others construct theirs,
\* append or read, every entry that was persisted and is within the horizon
\* is still in the file.
C24_ConstructionKeepsHistory ==
    \A e \in committed :
        CleanupKeeps(e, now) => e \in Range(load_history(file))

----------------------------------------------------------------------------
(* utils/metrics.py: SystemMetrics.check_thresholds *)

MaxDisks == 2

\* dict.get(key, default)
Get(d, key, default) == IF key \in DOMAIN d THEN d[key] ELSE default

\* One line of a bucket: the f-string's metric, mount point and value.
Violation(what, mount, value) == [what |-> what, mount |-> mount, value |-> value]

\* Mutant of Classify: the warning level tested first.
Classify_WarningFirst(value, critical, warning) ==
    IF value >= warning THEN "warnings"
    ELSE IF value >= critical THEN "critical"
    ELSE "none"

\* if value >= critical: ... elif value >= warning: ...
Classify(value, critical, warning) ==
    IF value >= critical THEN "critical"
    ELSE IF value >= warning THEN "warnings"
    ELSE "none"

check_thresholds(metrics, thresholds) ==
    LET cpu == Get(metrics, "cpu_percent", 0)
        cpuLevel == Classify(cpu, Get(thresholds, "cpu_critical", 95),
                                  Get(thresholds, "cpu_warning", 80))
        ram_pct == Get(metrics, "ram_percent", 0)
        ramLevel == Classify(ram_pct, Get(thresholds, "ram_critical", 95),
                                      Get(thresholds, "ram_warning", 85))
        disks == Get(metrics, "disks", <<>>)
        diskLevel(i) == Classify(disks[i].used_percent,
                                 Get(thresholds, "disk_critical", 90),
                                 Get(thresholds, "disk_warning", 80))
        diskLines(bucket) ==
            LET hit == SelectSeq([i \in 1..Len(disks) |-> i],
                                 LAMBDA i : diskLevel(i) = bucket)
            IN  [j \in 1..Len(hit) |->
                    Violation("Disk", disks[hit[j]].mount, disks[hit[j]].used_percent)]
        lines(bucket) ==
            (IF cpuLevel = bucket THEN <<Violation("CPU", "", cpu)>> ELSE <<>>)
            \o (IF ramLevel = bucket THEN <<Violation("RAM", "", ram_pct)>> ELSE <<>>)
            \o diskLines(bucket)
    IN  [warnings |-> lines("warnings"), critical |-> lines("critical")]

\* Inputs: gauges below, at and above the levels; disks mounted at 1, 2, ...
CpuValues == {50, 80, 82, 95, 96}
RamValues == {50, 96}
DiskValues == {50, 80, 82, 95, 96}

DiskLists ==
    UNION {[1..n -> DiskValues] : n \in 0..MaxDisks}

MetricsInputs ==
    {[cpu_percent |-> c, ram_percent |-> r,
      disks |-> [i \in 1..Len(d) |-> [mount |-> i, used_percent |-> d[i]]]] :
        c \in CpuValues, r \in RamValues, d \in DiskLists}

EmptyDict == [k \in {} |-> 0]

\* A threshold configuration names both levels of a metric, one, or none.
LevelOptions(warningKey, criticalKey) ==
    {EmptyDict,
     (warningKey :> 80) @@ (criticalKey :> 95),
     (warningKey :> 80),
     (criticalKey :> 95)}

ThresholdInputs ==
    {c @@ r @@ d : c \in LevelOptions("cpu_warning", "cpu_critical"),
                   r \in LevelOptions("ram_warning", "ram_critical"),
                   d \in LevelOptions("disk_warning", "disk_critical")}

InitThresholds ==
    /\ now = 0 /\ file = JsonFile(<<>>) /\ nextId = 1 /\ ret = NoCall
    /\ ConcIdle
    /\ rep = NoRun /\ mon = NoRun
    /\ \E m \in MetricsInputs, t \in ThresholdInputs :
          thr = [done |-> FALSE, metrics |-> m, thresholds |-> t]

CheckThresholds ==
    /\ ~thr.done
    /\ thr' = [done |-> TRUE, metrics |-> thr.metrics, thresholds |-> thr.thresholds,
               violations |-> check_thresholds(thr.metrics, thr.thresholds)]
    /\ UNCHANGED <<storeVars, concVars, rep, mon>>

SpecThresholds == InitThresholds /\ [][CheckThresholds]_vars

----------------------------------------------------------------------------
(* Claims about check_thresholds *)

Configured(thresholds, keys) == keys \subseteq DOMAIN thresholds

\* The lines of a bucket that are about one metric (and one mount point).
LinesOf(bucket, what, mount) ==
    SelectSeq(bucket, LAMBDA v : v.what = what /\ v.mount = mount)

Reported(what, mount) ==
    <<Len(LinesOf(thr.violations.warnings, what, mount)),
      Len(LinesOf(thr.violations.critical, what, mount))>>

\* C7: a metric for which the thresholds passed to check_thresholds
\* configure no level is skipped: it is reported neither as a warning nor as
\* critical, whatever its value.
C7_FailClosedOnAbsentThresholds ==
    thr.done =>
        /\ ~(\E k \in {"cpu_warning", "cpu_critical"} : k \in DOMAIN thr.thresholds)
              => Reported("CPU", "") = <<0, 0>>
        /\ ~(\E k \in {"ram_warning", "ram_critical"} : k \in DOMAIN thr.thresholds)
              => Reported("RAM", "") = <<0, 0>>
        /\ ~(\E k \in {"disk_warning", "disk_critical"} : k \in DOMAIN thr.thresholds)
              => \A i \in 1..Len(thr.metrics.disks) :
                    Reported("Disk", thr.metrics.disks[i].mount) = <<0, 0>>

\* Where the claim's classification puts a value: <<warning lines, critical lines>>.
Expected(value, warning, critical) ==
    IF value >= critical THEN <<0, 1>>
    ELSE IF value >= warning THEN <<1, 0>>
    ELSE <<0, 0>>

\* C8: with the levels of a metric configured, CPU, RAM and every disk entry
\* on its own are reported as critical if value >= critical_level, otherwise
\* as a warning if value >= warning_level, otherwise not at all; never in
\* both buckets, and a disk's report does not depend on the other disks.
C8_ThresholdClassification ==
    thr.done =>
        LET t == thr.thresholds
            m == thr.metrics
        IN  /\ Configured(t, {"cpu_warning", "cpu_critical"}) =>
                  Reported("CPU", "") =
                      Expected(m.cpu_percent, t["cpu_warning"], t["cpu_critical"])
            /\ Configured(t, {"ram_warning", "ram_critical"}) =>
                  Reported("RAM", "") =
                      Expected(m.ram_percent, t["ram_warning"], t["ram_critical"])
            /\ Configured(t, {"disk_warning", "disk_critical"}) =>
                  \A i \in 1..Len(m.disks) :
                      Reported("Disk", m.disks[i].mount) =
                          Expected(m.disks[i].used_percent,
                                   t["disk_warning"], t["disk_critical"])

\* CPU=96 with warning=80, critical=95 reported critical, and two disks of
\* which the first is critical and the second is a warning.
C8_Witness ==
    /\ thr.done
    /\ Configured(thr.thresholds, {"cpu_warning", "cpu_critical",
                                   "disk_warning", "disk_critical"})
    /\ thr.metrics.cpu_percent = 96
    /\ Reported("CPU", "") = <<0, 1>>
    /\ Len(thr.metrics.disks) = 2
    /\ Reported("Disk", 1) = <<0, 1>>
    /\ Reported("Disk", 2) = <<1, 0>>

----------------------------------------------------------------------------
(* reporter.py: the analyses of the 24-hour window                         *)
(* Percentages and averages are counted in hundredths: 90.0 is 9000.       *)

MaxSnapshots == 12
MaxRestarts == 6
MaxContainers == 3
MaxErrorLines == 2
MaxErrorSnapshots == 2
MaxErrorCap == 2

\* Mutant of RoundDiv: the quotient cut off, not rounded.
RoundDiv_Truncated(num, den) == num \div den

\* round(num / den, 2) in hundredths, for num already in hundredths:
\* the nearest integer to num / den, a tie going to the even one.
RoundDiv(num, den) ==
    LET q == num \div den
        r == num % den
    IN  IF 2 * r < den THEN q
        ELSE IF 2 * r > den THEN q + 1
        ELSE IF q % 2 = 0 THEN q ELSE q + 1

RECURSIVE SumSeq(_)
SumSeq(seq) == IF seq = <<>> THEN 0 ELSE seq[1] + SumSeq(Tail(seq))

RECURSIVE MaxSeq(_)
MaxSeq(seq) ==
    IF Len(seq) = 1 THEN seq[1]
    ELSE LET m == MaxSeq(Tail(seq)) IN IF seq[1] >= m THEN seq[1] ELSE m

Max(a, b) == IF a >= b THEN a ELSE b

RECURSIVE MinSeq(_)
MinSeq(seq) ==
    IF Len(seq) = 1 THEN seq[1]
    ELSE LET m == MinSeq(Tail(seq)) IN IF seq[1] <= m THEN seq[1] ELSE m

\* seq[:n], for n >= 0
Take(seq, n) == SubSeq(seq, 1, IF Len(seq) < n THEN Len(seq) ELSE n)

\* Mutant of analyze_24h_trends: an empty window yields statistics of zero.
analyze_24h_trends_ZerosOnEmpty(history) ==
    IF history = <<>>
    THEN [cpu |-> [avg |-> 0, min |-> 0, max |-> 0, current |-> 0],
          ram |-> [avg |-> 0, min |-> 0, max |-> 0, current |-> 0],
          data_points |-> 0,
          time_span_hours |-> 24]
    ELSE [cpu |-> [avg |-> 0, min |-> 0, max |-> 0, current |-> 0],
          ram |-> [avg |-> 0, min |-> 0, max |-> 0, current |-> 0],
          data_points |-> Len(history),
          time_span_hours |-> 24]

\* if not history: return {'error': 'No data available'}
analyze_24h_trends(history) ==
    IF history = <<>> THEN [error |-> "No data available"]
    ELSE LET cpu_values == [i \in 1..Len(history) |-> Get(history[i], "cpu_percent", 0)]
             ram_values == [i \in 1..Len(history) |-> Get(history[i], "ram_percent", 0)]
             stats(values) ==
                 [avg |-> RoundDiv(SumSeq(values), Len(values)),
                  min |-> MinSeq(values),
                  max |-> MaxSeq(values),
                  current |-> values[Len(values)]]
         IN  [cpu |-> stats(cpu_values),
              ram |-> stats(ram_values),
              data_points |-> Len(history),
              time_span_hours |-> 24]

\* container_stats[name] = {...} of a name not seen before.
NewStats(name) ==
    [name |-> name, uptime_checks |-> 0, down_checks |-> 0, total_restarts |-> 0,
     errors |-> <<>>, mem_values |-> <<>>, cpu_values |-> <<>>]

\* Mutant of CollectErrors: every line is appended, seen before or not.
CollectErrors_AppendsAll(errors, new) == errors \o new

\* for error in container.get('errors', []): if error not in stats['errors']: append
RECURSIVE CollectErrors(_, _)
CollectErrors(errors, new) ==
    IF new = <<>> THEN errors
    ELSE CollectErrors(IF \E i \in 1..Len(errors) : errors[i] = new[1]
                       THEN errors ELSE Append(errors, new[1]),
                       Tail(new))

\* The body of the inner loop, on the stats of the container's name.
Observe(stats, container) ==
    [stats EXCEPT
        !.uptime_checks = IF container.status = "running" THEN @ + 1 ELSE @,
        !.down_checks = IF container.status = "running" THEN @ ELSE @ + 1,
        !.total_restarts = Max(@, container.restarts),
        !.mem_values = IF container.mem_mb # 0 THEN Append(@, container.mem_mb) ELSE @,
        !.cpu_values = IF container.cpu_percent # 0
                       THEN Append(@, container.cpu_percent) ELSE @,
        !.errors = CollectErrors(@, container.errors)]

\* container_stats is a dict: its items keep the order of first insertion.
IndexOf(statsSeq, name) ==
    IF \E i \in 1..Len(statsSeq) : statsSeq[i].name = name
    THEN CHOOSE i \in 1..Len(statsSeq) : statsSeq[i].name = name
    ELSE 0

\* for container in entry.get('containers', []): a name not yet in
\* container_stats gets a new item, then the item of the name is updated.
RECURSIVE AggregateAll(_, _)
AggregateAll(statsSeq, containers) ==
    IF containers = <<>> THEN statsSeq
    ELSE IF IndexOf(statsSeq, containers[1].name) = 0
    THEN AggregateAll(Append(statsSeq,
                             Observe(NewStats(containers[1].name), containers[1])),
                      Tail(containers))
    ELSE AggregateAll([statsSeq EXCEPT ![IndexOf(statsSeq, containers[1].name)] =
                          Observe(@, containers[1])],
                      Tail(containers))

\* The containers in the order the two loops visit them.
RECURSIVE Visited(_)
Visited(history) ==
    IF history = <<>> THEN <<>>
    ELSE Get(history[1], "containers", <<>>) \o Visited(Tail(history))

\* for entry in history: for container in ...
AggregateHistory(statsSeq, history) == AggregateAll(statsSeq, Visited(history))

\* The second loop: uptime percentage, averages, the first N errors.
Summarise(stats, config) ==
    LET total_checks == stats.uptime_checks + stats.down_checks
    IN  [name |-> stats.name,
         uptime_checks |-> stats.uptime_checks,
         down_checks |-> stats.down_checks,
         total_restarts |-> stats.total_restarts,
         uptime_percent |-> IF total_checks > 0
                            THEN RoundDiv(stats.uptime_checks * 10000, total_checks)
                            ELSE 0,
         avg_mem_mb |-> IF stats.mem_values # <<>>
                        THEN RoundDiv(SumSeq(stats.mem_values), Len(stats.mem_values))
                        ELSE 0,
         max_mem_mb |-> IF stats.mem_values # <<>> THEN MaxSeq(stats.mem_values) ELSE 0,
         avg_cpu_percent |-> IF stats.cpu_values # <<>>
                             THEN RoundDiv(SumSeq(stats.cpu_values), Len(stats.cpu_values))
                             ELSE 0,
         max_cpu_percent |-> IF stats.cpu_values # <<>> THEN MaxSeq(stats.cpu_values) ELSE 0,
         errors |-> Take(stats.errors, Get(config, "max_errors_in_report", 10))]

analyze_container_health(history, config) ==
    LET folded == AggregateHistory(<<>>, history)
    IN  [i \in 1..Len(folded) |-> Summarise(folded[i], config)]

\* # Check uptime
UptimeSeverity(stats, severity) ==
    IF stats.uptime_percent < 10000
    THEN (IF stats.uptime_percent > 9000 THEN "warning" ELSE "critical")
    ELSE severity

\* # Check restarts
RestartSeverity(stats, severity) ==
    IF stats.total_restarts > 0
    THEN (IF stats.total_restarts >= 5 THEN "critical"
          ELSE IF stats.total_restarts >= 3 THEN "warning"
          ELSE severity)
    ELSE severity

\* # Check for errors
ErrorSeverity(stats, severity) ==
    IF stats.errors # <<>>
    THEN (IF severity = "info" THEN "warning" ELSE severity)
    ELSE severity

Issues(stats) ==
    (IF stats.uptime_percent < 10000 THEN <<"uptime">> ELSE <<>>)
    \o (IF stats.total_restarts > 0 THEN <<"restarts">> ELSE <<>>)
    \o (IF stats.errors # <<>> THEN <<"errors">> ELSE <<>>)

Problem(stats) ==
    [name |-> stats.name,
     severity |-> ErrorSeverity(stats,
                      RestartSeverity(stats, UptimeSeverity(stats, "info"))),
     issues |-> Issues(stats),
     errors |-> SubSeq(stats.errors, 1, IF Len(stats.errors) < 3 THEN Len(stats.errors) ELSE 3),
     stats |-> [uptime_percent |-> stats.uptime_percent,
                restarts |-> stats.total_restarts,
                avg_mem_mb |-> stats.avg_mem_mb]]

\* Mutant of SortBySeverity: the list is left in the order of the loop.
SortBySeverity_Unsorted(problems) == problems

\* problems.sort(key=severity_order[...]): a stable sort on three keys.
SortBySeverity(problems) ==
    SelectSeq(problems, LAMBDA p : p.severity = "critical")
    \o SelectSeq(problems, LAMBDA p : p.severity = "warning")
    \o SelectSeq(problems, LAMBDA p : p.severity = "info")

identify_problematic_containers(container_stats) ==
    LET flagged == SelectSeq(container_stats, LAMBDA st : Issues(st) # <<>>)
    IN  SortBySeverity([i \in 1..Len(flagged) |-> Problem(flagged[i])])

\* Mutant of InsertDescending: an entity goes before those of equal key.
InsertDescending_TiesFirst(sorted, x, key) ==
    SelectSeq(sorted, LAMBDA y : y[key] > x[key])
    \o <<x>>
    \o SelectSeq(sorted, LAMBDA y : y[key] <= x[key])

\* sorted(..., reverse=True) is stable: an entity goes behind every entity
\* whose key is as large as its own.
InsertDescending(sorted, x, key) ==
    SelectSeq(sorted, LAMBDA y : y[key] >= x[key])
    \o <<x>>
    \o SelectSeq(sorted, LAMBDA y : y[key] < x[key])

\* sorted(container_stats.values(), key=lambda x: x[key], reverse=True)
RECURSIVE sorted_reverse(_, _)
sorted_reverse(seq, key) ==
    IF seq = <<>> THEN <<>>
    ELSE InsertDescending(sorted_reverse(SubSeq(seq, 1, Len(seq) - 1), key),
                          seq[Len(seq)], key)

\* One top_n, read from top_memory_containers, cuts both lists.
get_top_resource_consumers(container_stats, config) ==
    LET top_n == Get(config, "top_memory_containers", 5)
        by_memory == Take(sorted_reverse(container_stats, "avg_mem_mb"), top_n)
        by_cpu == Take(sorted_reverse(container_stats, "avg_cpu_percent"), top_n)
    IN  [top_memory |->
            [i \in 1..Len(by_memory) |->
                [name |-> by_memory[i].name,
                 avg_mb |-> by_memory[i].avg_mem_mb,
                 max_mb |-> by_memory[i].max_mem_mb]],
         top_cpu |->
            [i \in 1..Len(by_cpu) |->
                [name |-> by_cpu[i].name,
                 avg_percent |-> by_cpu[i].avg_cpu_percent,
                 max_percent |-> by_cpu[i].max_cpu_percent]]]

\* The embed: the status line, the trend figures, the current state read
\* from latest_entry, the first five problems, the first three of each top
\* list.
generate_discord_embed(analysis, latest_entry) ==
    LET problems == analysis.problems
        critical_count == Len(SelectSeq(problems, LAMBDA p : p.severity = "critical"))
        warning_count == Len(SelectSeq(problems, LAMBDA p : p.severity = "warning"))
        shown == Take(problems, 5)
    IN  [status |-> IF critical_count > 0 THEN "Critical Issues"
                    ELSE IF warning_count > 0 THEN "Warnings"
                    ELSE "All Systems Nominal",
         cpu |-> [avg |-> analysis.trends.cpu.avg, max |-> analysis.trends.cpu.max],
         ram |-> [avg |-> analysis.trends.ram.avg, max |-> analysis.trends.ram.max],
         data_points |-> analysis.trends.data_points,
         current |-> [containers_running |-> Get(latest_entry, "containers_running", 0),
                      containers_total |-> Get(latest_entry, "containers_total", 0),
                      disks |-> Get(latest_entry, "disks", <<>>)],
         issues |-> [i \in 1..Len(shown) |->
                        [name |-> shown[i].name, severity |-> shown[i].severity,
                         issues |-> shown[i].issues]],
         top_memory |-> Take(analysis.top_resources.top_memory, 3),
         top_cpu |-> Take(analysis.top_resources.top_cpu, 3)]

\* Inputs: a window of n snapshots in which container web is not running in
\* the first `down` of them, its restart counter climbs by one a snapshot up
\* to `restarts` in the last, and it logs an error line while running or not.
WebContainer(i, n, down, restarts, errs) ==
    [name |-> "web",
     status |-> IF i <= down THEN "exited" ELSE "running",
     restarts |-> Max(0, restarts - (n - i)),
     mem_mb |-> IF i <= down THEN 0 ELSE 50000,
     cpu_percent |-> IF i <= down THEN 0 ELSE 150,
     errors |-> IF errs /\ i > down THEN <<"ERROR boom">> ELSE <<>>]

Window(n, down, restarts, errs) ==
    [i \in 1..n |->
        [timestamp |-> isoformat(0),
         containers |-> <<WebContainer(i, n, down, restarts, errs)>>]]

WindowInputs ==
    {Window(n, down, restarts, errs) :
        n \in 1..MaxSnapshots, down \in 0..MaxSnapshots,
        restarts \in 0..MaxRestarts, errs \in BOOLEAN}

\* Inputs: windows of one or two snapshots of up to MaxContainers
\* containers c1, c2, ...: healthy ones, ones with 2, 4 and 5 restarts, one
\* that logs an error and one that has exited, with equal and different
\* memory and CPU figures. The second snapshot lists them in reverse order.
Profiles ==
    {[status |-> "running", restarts |-> 0, mem_mb |-> 50000, cpu_percent |-> 1000,
      errors |-> <<>>],
     [status |-> "running", restarts |-> 2, mem_mb |-> 120000, cpu_percent |-> 1000,
      errors |-> <<>>],
     [status |-> "running", restarts |-> 4, mem_mb |-> 30000, cpu_percent |-> 3000,
      errors |-> <<>>],
     [status |-> "running", restarts |-> 0, mem_mb |-> 50000, cpu_percent |-> 3000,
      errors |-> <<"ERROR boom">>],
     [status |-> "exited", restarts |-> 0, mem_mb |-> 0, cpu_percent |-> 0,
      errors |-> <<>>],
     [status |-> "running", restarts |-> 5, mem_mb |-> 120000, cpu_percent |-> 2000,
      errors |-> <<>>]}

ContainerNames == <<"c1", "c2", "c3", "c4", "c5", "c6", "c7", "c8", "c9">>

Fleet(profiles) ==
    [i \in 1..Len(profiles) |-> [name |-> ContainerNames[i]] @@ profiles[i]]

Reverse(seq) == [i \in 1..Len(seq) |-> seq[Len(seq) + 1 - i]]

FleetWindows ==
    UNION {{<<[timestamp |-> isoformat(0), containers |-> Fleet(p)]>>,
            <<[timestamp |-> isoformat(0), containers |-> Fleet(p)],
              [timestamp |-> isoformat(1), containers |-> Reverse(Fleet(p))]>>} :
           p \in UNION {[1..k -> Profiles] : k \in 1..MaxContainers}}

\* The error lines of a container: a line, the same line in lower case, the
\* same line with a trailing blank.
ErrorLines == {"ERROR boom", "error boom", "ERROR boom "}

\* _get_container_errors returns the lines of one snapshot without
\* duplicates.
ErrorLists ==
    {l \in UNION {[1..k -> ErrorLines] : k \in 0..MaxErrorLines} :
        \A i, j \in 1..Len(l) : l[i] = l[j] => i = j}

\* A running container that never restarted and logs these lines.
Logging(errors) ==
    [name |-> "web", status |-> "running", restarts |-> 0, mem_mb |-> 50000,
     cpu_percent |-> 150, errors |-> errors]

\* Inputs: windows of up to MaxErrorSnapshots snapshots of one container
\* whose only signal is the lines it logs.
ErrorWindows ==
    UNION {{[i \in 1..n |-> [timestamp |-> isoformat(0),
                             containers |-> <<Logging(ls[i])>>]] :
               ls \in [1..n -> ErrorLists]} : n \in 1..MaxErrorSnapshots}

\* Inputs: a window of two snapshots in which the container logs eleven
\* different lines, one of them in both snapshots.
ManyErrors ==
    <<[timestamp |-> isoformat(0),
       containers |-> <<Logging(<<"ERROR 1", "ERROR 2", "ERROR 3", "ERROR 4",
                                  "ERROR 5", "ERROR 6">>)>>],
      [timestamp |-> isoformat(1),
       containers |-> <<Logging(<<"ERROR 6", "error 1", "ERROR 1 ", "ERROR 7",
                                  "ERROR 8", "ERROR 9">>)>>]>>

\* config['reporting'] as load_config defaults it.
ReportingConfig == [max_errors_in_report |-> 10]

\* config['reporting'] of a configuration file: without the top-N keys, with
\* top_memory_containers and top_cpu_containers set, with an error cap of
\* 0 .. MaxErrorCap, or without max_errors_in_report.
ConfigInputs ==
    {ReportingConfig}
    \cup {[max_errors_in_report |-> 10, top_memory_containers |-> n,
           top_cpu_containers |-> 1] : n \in {1, 2}}
    \cup {[max_errors_in_report |-> n] : n \in 0..MaxErrorCap}
    \cup {[top_memory_containers |-> 5, top_cpu_containers |-> 5]}

InitReporter ==
    /\ now = 0 /\ file = JsonFile(<<>>) /\ nextId = 1 /\ ret = NoCall
    /\ ConcIdle
    /\ thr = NoRun /\ mon = NoRun
    /\ \E w \in WindowInputs \cup FleetWindows \cup ErrorWindows \cup {ManyErrors},
          config \in ConfigInputs :
          rep = [done |-> FALSE, history |-> w, config |-> config]

AnalyzeContainers ==
    /\ ~rep.done
    /\ LET container_stats == analyze_container_health(rep.history, rep.config)
       IN  rep' = [done |-> TRUE, history |-> rep.history, config |-> rep.config,
                   trends |-> analyze_24h_trends(rep.history),
                   container_stats |-> container_stats,
                   problems |-> identify_problematic_containers(container_stats),
                   top_resources |-> get_top_resource_consumers(container_stats,
                                                                rep.config)]
    /\ UNCHANGED <<storeVars, concVars, thr, mon>>

SpecReporter == InitReporter /\ [][AnalyzeContainers]_vars

----------------------------------------------------------------------------
(* Claims about the problem list *)

\* The entry of the problem list about the entity of these stats.
ProblemOf(stats) ==
    CHOOSE p \in Range(rep.problems) : p.name = stats.name

Listed(stats) == \E p \in Range(rep.problems) : p.name = stats.name

\* C5: the checks run in the order uptime, restarts, errors and a later check
\* never lowers the severity an earlier one fixed: an entity with
\* uptime_percent < 90 is reported critical whatever its restart count.
C5_SeverityNeverLowered ==
    rep.done =>
        \A i \in 1..Len(rep.container_stats) :
            LET st == rep.container_stats[i]
            IN  st.uptime_percent < 9000 =>
                    Listed(st) /\ ProblemOf(st).severity = "critical"

\* C6: the uptime check yields critical only below 90 and warning from 90 up
\* to 100: an entity running in 9 of 10 snapshots has uptime_percent 90.0
\* and, with fewer than 5 restarts, is reported with severity warning.
C6_UptimeSeverityBoundary ==
    rep.done =>
        \A i \in 1..Len(rep.container_stats) :
            LET st == rep.container_stats[i]
            IN  /\ (st.uptime_checks = 9 /\ st.down_checks = 1)
                      => st.uptime_percent = 9000
                /\ (9000 <= st.uptime_percent /\ st.uptime_percent < 10000
                    /\ st.total_restarts < 5)
                      => Listed(st) /\ ProblemOf(st).severity = "warning"

SeverityRank(severity) ==
    CASE severity = "critical" -> 0
      [] severity = "warning" -> 1
      [] OTHER -> 2

\* The names of the containers of the window, in the order the snapshots
\* list them.
RECURSIVE Encountered(_)
Encountered(history) ==
    IF history = <<>> THEN <<>>
    ELSE LET containers == Get(history[1], "containers", <<>>)
         IN  [i \in 1..Len(containers) |-> containers[i].name]
             \o Encountered(Tail(history))

FirstEncounter(name) ==
    LET names == Encountered(rep.history)
    IN  CHOOSE i \in 1..Len(names) :
            names[i] = name /\ \A j \in 1..(i - 1) : names[j] # name

\* C18: in the problem list every critical entry comes before every warning
\* entry and every warning before every info entry, and entries of equal
\* severity are in the order in which the window first shows their
\* entities.
C18_SeverityOrdering ==
    rep.done =>
        \A i, j \in 1..Len(rep.problems) :
            i < j =>
                LET p == rep.problems[i]
                    q == rep.problems[j]
                IN  /\ SeverityRank(p.severity) <= SeverityRank(q.severity)
                    /\ p.severity = q.severity =>
                          FirstEncounter(p.name) < FirstEncounter(q.name)

\* A problem list of one critical entry and two warnings, the window showing
\* the critical entity last: the critical entry is first and the warnings
\* follow in the order of the window.
C18_Witness ==
    /\ rep.done
    /\ [i \in 1..Len(rep.problems) |-> rep.problems[i].severity]
          = <<"critical", "warning", "warning">>
    /\ [i \in 1..Len(rep.problems) |-> FirstEncounter(rep.problems[i].name)]
          = <<3, 1, 2>>

\* Where the entity of this name stands in container_stats.
StatsIndex(name) ==
    CHOOSE i \in 1..Len(rep.container_stats) : rep.container_stats[i].name = name

TopN == Get(rep.config, "top_memory_containers", 5)

\* The claim of C19 about one of the two lists: its entries, the field of
\* their averages, and the field of container_stats it ranks by.
Ranked(top, avg, key) ==
    /\ Len(top) <= TopN
    /\ \A i, j \in 1..Len(top) :
          i < j =>
              /\ top[i][avg] >= top[j][avg]
              /\ top[i][avg] = top[j][avg] =>
                    StatsIndex(top[i].name) < StatsIndex(top[j].name)
    /\ \A i \in 1..Len(top) :
          top[i][avg] = rep.container_stats[StatsIndex(top[i].name)][key]
    /\ \A k \in 1..Len(rep.container_stats) :
          (\A i \in 1..Len(top) : top[i].name # rep.container_stats[k].name) =>
              \A i \in 1..Len(top) : rep.container_stats[k][key] <= top[i][avg]

\* C19: for memory and for CPU, get_top_resource_consumers returns at most N
\* entities in descending order of their average, entities of equal average
\* in the order container_stats has them, and no entity left out has a
\* larger average than one returned.
C19_TopNRanking ==
    rep.done =>
        /\ Ranked(rep.top_resources.top_memory, "avg_mb", "avg_mem_mb")
        /\ Ranked(rep.top_resources.top_cpu, "avg_percent", "avg_cpu_percent")

\* Average memory 500, 1200 and 300 with N = 2: the second entity, then the
\* first; and a CPU list cut to N whose two entries have the same average.
C19_Witness ==
    /\ rep.done
    /\ TopN = 2
    /\ Len(rep.container_stats) = 3
    /\ [i \in 1..3 |-> rep.container_stats[i].avg_mem_mb] = <<50000, 120000, 30000>>
    /\ [i \in 1..2 |-> rep.top_resources.top_memory[i].name] = <<"c2", "c1">>
    /\ Len(rep.top_resources.top_cpu) = 2
    /\ rep.top_resources.top_cpu[1].avg_percent = rep.top_resources.top_cpu[2].avg_percent

\* The error lines the snapshots of the window hold for the entity of this
\* name, in the order the window shows them, repeated ones included.
RECURSIVE Logged(_, _)
Logged(containers, name) ==
    IF containers = <<>> THEN <<>>
    ELSE (IF containers[1].name = name THEN containers[1].errors ELSE <<>>)
         \o Logged(Tail(containers), name)

\* Where the line is first seen among the logged ones.
FirstSeen(logged, line) ==
    CHOOSE i \in 1..Len(logged) :
        logged[i] = line /\ \A j \in 1..(i - 1) : logged[j] # line

ErrorCap == Get(rep.config, "max_errors_in_report", 10)

\* C21: for every entity, the errors analyze_container_health retains are
\* lines logged for it in the window, no line twice, in the order in which
\* they were first seen, two lines being the same only if they are equal
\* character by character; their number is that of the different lines
\* logged or max_errors_in_report (10 unless configured), whichever is
\* smaller, and no line left out was first seen before a retained one.
C21_ErrorAggregation ==
    rep.done =>
        \A k \in 1..Len(rep.container_stats) :
            LET st == rep.container_stats[k]
                logged == Logged(Visited(rep.history), st.name)
                different == Range(logged)
            IN  /\ Range(st.errors) \subseteq different
                /\ \A i, j \in 1..Len(st.errors) :
                      i < j => /\ st.errors[i] # st.errors[j]
                               /\ FirstSeen(logged, st.errors[i])
                                     < FirstSeen(logged, st.errors[j])
                /\ Len(st.errors) = IF Cardinality(different) < ErrorCap
                                    THEN Cardinality(different) ELSE ErrorCap
                /\ \A line \in different \ Range(st.errors) :
                      \A i \in 1..Len(st.errors) :
                          FirstSeen(logged, st.errors[i]) < FirstSeen(logged, line)

\* Twelve lines logged over two snapshots, eleven of them different (one
\* repeated, one differing in case only, one in a trailing blank only), no
\* cap configured: the first ten different lines are retained.
C21_Witness ==
    /\ rep.done
    /\ "max_errors_in_report" \notin DOMAIN rep.config
    /\ Len(rep.container_stats) = 1
    /\ Len(Logged(Visited(rep.history), "web")) = 12
    /\ rep.container_stats[1].errors =
          <<"ERROR 1", "ERROR 2", "ERROR 3", "ERROR 4", "ERROR 5", "ERROR 6",
            "error 1", "ERROR 1 ", "ERROR 7", "ERROR 8">>

\* C22: an entity is in the problem list exactly if its uptime_percent is
\* below 100, or its restart count is above 0, or the window holds an error
\* line for it, whatever max_errors_in_report is.
C22_FlaggingRule ==
    rep.done =>
        \A k \in 1..Len(rep.container_stats) :
            LET st == rep.container_stats[k]
            IN  Listed(st) <=>
                    \/ st.uptime_percent < 10000
                    \/ st.total_restarts > 0
                    \/ Logged(Visited(rep.history), st.name) # <<>>

----------------------------------------------------------------------------
(* monitor.py: collect_metrics, analyze_for_critical_alerts, main *)

\* How the Docker part of collect_metrics goes: no exception, or one raised
\* by DockerMonitor(...), by get_all_containers, or by close().
DockerOutcomes == {"ok", "connect_raises", "list_raises", "close_raises"}

\* Lines 126-134: the keys set once the containers are listed.
DockerKeys(containers) ==
    [containers |-> containers,
     containers_total |-> Len(containers),
     containers_running |-> Len(SelectSeq(containers, LAMBDA c : c.status = "running")),
     containers_stopped |-> Len(SelectSeq(containers, LAMBDA c : c.status # "running")),
     containers_unhealthy |-> Len(SelectSeq(containers, LAMBDA c : c.health = "unhealthy")),
     docker_info |-> "info"]

\* Lines 140-141, after whatever the try block had set.
DegradedKeys == [containers |-> <<>>, docker_error |-> "error"]

\* collect_metrics: the metrics dict, or the exception that leaves it.
\* Line 143 reads metrics['containers_total'] outside the try block.
collect_metrics(system, docker, containers, run, t) ==
    LET base == [id |-> run,
                 timestamp |-> isoformat(t),
                 cpu_percent |-> system.cpu_percent,
                 ram_percent |-> system.ram_percent,
                 disks |-> system.disks]
        metrics ==
            CASE docker = "ok" -> DockerKeys(containers) @@ base
              [] docker = "close_raises" ->
                    DegradedKeys @@ DockerKeys(containers) @@ base
              [] OTHER -> DegradedKeys @@ base
    IN  IF "containers_total" \in DOMAIN metrics
        THEN [raised |-> FALSE, metrics |-> metrics]
        ELSE [raised |-> TRUE, exc |-> "KeyError"]

\* Mutant of RestartLines: the levels 5 and 3, whatever the thresholds say.
RECURSIVE RestartLines_BuiltInLevels(_, _, _)
RestartLines_BuiltInLevels(containers, thresholds, bucket) ==
    IF containers = <<>> THEN <<>>
    ELSE LET c == containers[1]
             level == Classify(c.restarts, 5, 3)
         IN  (IF level = bucket THEN <<Violation("restarts", c.name, c.restarts)>> ELSE <<>>)
             \o RestartLines_BuiltInLevels(Tail(containers), thresholds, bucket)

\* for container in metrics.get('containers', []): if restarts >= ...: elif ...
RECURSIVE RestartLines(_, _, _)
RestartLines(containers, thresholds, bucket) ==
    IF containers = <<>> THEN <<>>
    ELSE LET c == containers[1]
             level == Classify(c.restarts,
                               Get(thresholds, "container_restart_critical", 5),
                               Get(thresholds, "container_restart_warning", 3))
         IN  (IF level = bucket THEN <<Violation("restarts", c.name, c.restarts)>> ELSE <<>>)
             \o RestartLines(Tail(containers), thresholds, bucket)

analyze_for_critical_alerts(metrics, thresholds) ==
    LET violations == check_thresholds(metrics, thresholds)
        stopped == Get(metrics, "containers_stopped", 0)
        unhealthy == Get(metrics, "containers_unhealthy", 0)
        containers == Get(metrics, "containers", <<>>)
        critical_issues ==
            violations.critical
            \o (IF unhealthy > 0 THEN <<Violation("unhealthy", "", unhealthy)>> ELSE <<>>)
            \o RestartLines(containers, thresholds, "critical")
        warnings ==
            violations.warnings
            \o (IF stopped > 0 THEN <<Violation("stopped", "", stopped)>> ELSE <<>>)
            \o RestartLines(containers, thresholds, "warnings")
    IN  [has_critical |-> \/ violations.critical # <<>>
                          \/ unhealthy > 0
                          \/ RestartLines(containers, thresholds, "critical") # <<>>,
         critical_issues |-> critical_issues,
         warnings |-> warnings]

\* The thresholds of load_config's default configuration.
DefaultThresholds ==
    [cpu_warning |-> 80, cpu_critical |-> 95, ram_warning |-> 85,
     ram_critical |-> 95, disk_warning |-> 80, disk_critical |-> 90]

\* How _write_history goes inside add_entry: it returns, open(..., 'w')
\* raises (the file is as it was), or json.dump raises after open has
\* truncated the file.
WriteOutcomes == {"ok", "open_raises", "dump_raises"}

\* Mutant of storage_add_entry: an exception of the write is swallowed.
storage_add_entry_Swallowed(f, metrics, write, t) ==
    CASE write = "ok" ->
            [raised |-> FALSE, file |-> _write_history(add_entry(f, metrics, t))]
      [] write = "open_raises" -> [raised |-> FALSE, file |-> f]
      [] OTHER -> [raised |-> FALSE, file |-> TornFile]

\* storage.add_entry(metrics) as main sees it: the file it leaves and
\* whether it raised. Neither _write_history nor add_entry catches anything.
storage_add_entry(f, metrics, write, t) ==
    CASE write = "ok" ->
            [raised |-> FALSE, file |-> _write_history(add_entry(f, metrics, t))]
      [] write = "open_raises" -> [raised |-> TRUE, file |-> f]
      [] OTHER -> [raised |-> TRUE, file |-> TornFile]

\* main's try block: what is written to the history file, the JSON printed
\* for the caller and the exit code.
main(f, system, docker, containers, test, write, run, t) ==
    LET collected == collect_metrics(system, docker, containers, run, t)
        alert_info == analyze_for_critical_alerts(collected.metrics, DefaultThresholds)
        metrics == [alert |-> alert_info] @@ collected.metrics
        stored == IF test THEN [raised |-> FALSE, file |-> f]
                  ELSE storage_add_entry(f, metrics, write, t)
    IN  IF collected.raised
        THEN [file |-> f, exit |-> 1,
              output |-> [success |-> FALSE, error |-> collected.exc]]
        ELSE IF stored.raised
        THEN [file |-> stored.file, exit |-> 1,
              output |-> [success |-> FALSE, error |-> "OSError"]]
        ELSE     [file |-> stored.file,
                  exit |-> 0,
                  output |-> [success |-> TRUE,
                              timestamp |-> metrics.timestamp,
                              critical_alert |-> alert_info.has_critical,
                              summary |->
                                  [cpu_percent |-> metrics.cpu_percent,
                                   ram_percent |-> metrics.ram_percent,
                                   containers_running |-> metrics.containers_running,
                                   containers_total |-> metrics.containers_total,
                                   critical_issues |-> alert_info.critical_issues,
                                   warnings |-> alert_info.warnings]]]

\* Inputs: two hosts and two sets of containers.
SystemInputs ==
    {[cpu_percent |-> c, ram_percent |-> 50,
      disks |-> <<[mount |-> 1, used_percent |-> 50]>>] : c \in {50, 96}}

ContainerRecord(name, status, health, restarts) ==
    [name |-> name, status |-> status, health |-> health, restarts |-> restarts,
     mem_mb |-> IF status = "running" THEN 50000 ELSE 0,
     cpu_percent |-> IF status = "running" THEN 150 ELSE 0,
     errors |-> <<>>]

ContainerInputs ==
    {<<ContainerRecord("web", "running", "healthy", 0)>>,
     <<ContainerRecord("web", "running", "unhealthy", 4),
       ContainerRecord("db", "exited", "none", 5)>>}

InitMonitor ==
    /\ now = 0
    /\ \E h \in InitialHistories : file = JsonFile(h)
    /\ nextId = 1
    /\ ret = NoCall
    /\ ConcIdle
    /\ thr = NoRun /\ rep = NoRun /\ mon = NoRun

MonitorRun ==
    /\ nextId <= MaxRuns
    /\ \E system \in SystemInputs, docker \in DockerOutcomes,
          containers \in ContainerInputs, test \in BOOLEAN,
          write \in WriteOutcomes :
          LET run == main(file, system, docker, containers, test, write, nextId, now)
          IN  /\ file' = run.file
              /\ mon' = [done |-> TRUE, id |-> nextId, docker |-> docker,
                         test |-> test, write |-> write,
                         before |-> load_history(file),
                         exit |-> run.exit, output |-> run.output]
    /\ nextId' = nextId + 1
    /\ UNCHANGED <<now, ret, concVars, thr, rep>>

MonitorTick ==
    /\ now < MaxNow
    /\ now' = now + 1
    /\ UNCHANGED <<file, nextId, ret, concVars, pureVars>>

NextMonitor == MonitorRun \/ MonitorTick

SpecMonitor == InitMonitor /\ [][NextMonitor]_vars

----------------------------------------------------------------------------
(* Claims about the monitor run *)

\* C4: when collecting the container metrics fails (and the history file
\* can be written), the monitor run does not abort: it ends with the success output and, outside test mode, has
\* appended to the history a degraded snapshot (empty container list, an
\* error marker), so every poll adds one entry.
C4_DockerFailureStillStored ==
    (mon.done /\ mon.docker # "ok" /\ mon.write = "ok") =>
        /\ mon.exit = 0
        /\ mon.output.success
        /\ ~mon.test =>
              LET history == load_history(file)
              IN  /\ history # <<>>
                  /\ history[Len(history)].id = mon.id
                  /\ history[Len(history)].containers = <<>>
                  /\ "docker_error" \in DOMAIN history[Len(history)]

\* C15: when writing the history file fails during add_entry, the monitor
\* run ends with the error result (success false, an error text) and exit
\* code 1, and never with success true.
C15_WriteFailureSurfaced ==
    (mon.done /\ ~mon.test /\ mon.write # "ok") =>
        /\ mon.exit = 1
        /\ mon.output.success = FALSE
        /\ "error" \in DOMAIN mon.output

\* A run whose Docker part went well and whose write failed after the file
\* was truncated, on a store that held entries.
C15_Witness ==
    /\ mon.done /\ ~mon.test /\ mon.docker = "ok"
    /\ mon.write = "dump_raises"
    /\ mon.exit = 1
    /\ mon.output.error = "OSError"
    /\ mon.before # <<>>
    /\ file = TornFile

\* C25: when add_entry raises while it writes the history file, the
\* persisted history is what it was before the call: load_history returns
\* every entry stored before.
C25_FailedAppendLeavesHistory ==
    (/\ mon.done /\ ~mon.test
     /\ mon.docker \in {"ok", "close_raises"}
     /\ mon.write # "ok") =>
        load_history(file) = mon.before

----------------------------------------------------------------------------
(* monitor.py: analyze_for_critical_alerts on the metrics of one poll *)

MaxAlertContainers == 2

\* What get_all_containers reports of a container: running and healthy,
\* running and unhealthy, or exited; a restart count of 0 .. MaxRestarts.
ContainerStates ==
    {<<"running", "healthy">>, <<"running", "unhealthy">>, <<"exited", "none">>}

AlertContainers ==
    UNION {{[i \in 1..k |-> ContainerRecord(ContainerNames[i], st[i][1], st[i][2], r[i])] :
               st \in [1..k -> ContainerStates], r \in [1..k -> 0..MaxRestarts]} :
           k \in 0..MaxAlertContainers}

\* config['thresholds']: the default configuration, alone or with one or
\* both restart levels set.
RestartLevelOptions ==
    {EmptyDict,
     [container_restart_warning |-> 1, container_restart_critical |-> 2],
     [container_restart_warning |-> 4],
     [container_restart_critical |-> 4]}

AlertThresholds == {o @@ DefaultThresholds : o \in RestartLevelOptions}

InitAlerts ==
    /\ now = 0 /\ file = JsonFile(<<>>) /\ nextId = 1 /\ ret = NoCall
    /\ ConcIdle
    /\ thr = NoRun /\ rep = NoRun
    /\ \E system \in SystemInputs, containers \in AlertContainers,
          thresholds \in AlertThresholds :
          mon = [done |-> FALSE,
                 metrics |-> collect_metrics(system, "ok", containers, 1, 0).metrics,
                 thresholds |-> thresholds]

AnalyzeAlerts ==
    /\ ~mon.done
    /\ mon' = [done |-> TRUE, metrics |-> mon.metrics, thresholds |-> mon.thresholds,
               alert |-> analyze_for_critical_alerts(mon.metrics, mon.thresholds)]
    /\ UNCHANGED <<storeVars, concVars, thr, rep>>

SpecAlerts == InitAlerts /\ [][AnalyzeAlerts]_vars

\* The restart lines about one container: <<among the warnings, among the
\* critical issues>>.
RestartReport(name) ==
    <<Len(LinesOf(mon.alert.warnings, "restarts", name)),
      Len(LinesOf(mon.alert.critical_issues, "restarts", name))>>

RestartWarningLevel ==
    IF "container_restart_warning" \in DOMAIN mon.thresholds
    THEN mon.thresholds["container_restart_warning"] ELSE 3

RestartCriticalLevel ==
    IF "container_restart_critical" \in DOMAIN mon.thresholds
    THEN mon.thresholds["container_restart_critical"] ELSE 5

\* C23: analyze_for_critical_alerts reports a container's restart count as
\* critical if it is >= the critical level, else as a warning if it is >=
\* the warning level, else not at all, the levels being those of the
\* thresholds and 5 and 3 where the thresholds name none; an unhealthy
\* container adds a critical issue, stopped containers add a warning and
\* nothing critical, and has_critical is true exactly when critical_issues
\* is not empty, that is when a gauge is critical, a container is unhealthy
\* or a restart count is at the critical level.
C23_AlertGrading ==
    mon.done =>
        LET cs == mon.metrics.containers
            unhealthy == {i \in 1..Len(cs) : cs[i].health = "unhealthy"}
            stopped == {i \in 1..Len(cs) : cs[i].status # "running"}
        IN  /\ \A i \in 1..Len(cs) :
                  RestartReport(cs[i].name) =
                      Expected(cs[i].restarts, RestartWarningLevel, RestartCriticalLevel)
            /\ Len(LinesOf(mon.alert.critical_issues, "unhealthy", "")) =
                  (IF unhealthy # {} THEN 1 ELSE 0)
            /\ Len(LinesOf(mon.alert.warnings, "stopped", "")) =
                  (IF stopped # {} THEN 1 ELSE 0)
            /\ LinesOf(mon.alert.critical_issues, "stopped", "") = <<>>
            /\ mon.alert.has_critical <=> mon.alert.critical_issues # <<>>
            /\ mon.alert.has_critical <=>
                  \/ check_thresholds(mon.metrics, mon.thresholds).critical # <<>>
                  \/ unhealthy # {}
                  \/ \E i \in 1..Len(cs) : cs[i].restarts >= RestartCriticalLevel

\* No restart level configured, gauges below their levels: a healthy
\* container with 3 restarts and an exited one with 5 give a warning for the
\* first, a critical issue for the second and a warning for the stopped one.
C23_Witness ==
    /\ mon.done
    /\ "alert" \in DOMAIN mon
    /\ DOMAIN mon.thresholds = DOMAIN DefaultThresholds
    /\ mon.metrics.cpu_percent = 50
    /\ Len(mon.metrics.containers) = 2
    /\ mon.metrics.containers[1].restarts = 3
    /\ mon.metrics.containers[1].status = "running"
    /\ mon.metrics.containers[2].restarts = 5
    /\ mon.metrics.containers[2].status = "exited"
    /\ RestartReport("c1") = <<1, 0>>
    /\ RestartReport("c2") = <<0, 1>>
    /\ Len(mon.alert.warnings) = 2
    /\ Len(mon.alert.critical_issues) = 1
    /\ mon.alert.has_critical

----------------------------------------------------------------------------
(* reporter.py: main, on the store the monitor fills *)

\* HealthStorage(...): if not self.history_file.exists(): self._write_history([])
HealthStorage(f) == IF f.content = "missing" THEN _write_history(<<>>) ELSE f

\* The reporter's try block: the file the constructor leaves, the exit code
\* and what is printed: the no-data result, the embed, or the error result.
reporter_main(f, t, config) ==
    LET storage == HealthStorage(f)
        history_24h == get_last_24h(storage, t)
        latest_entry == get_latest_entry(storage)
        trends == analyze_24h_trends(history_24h)
        container_stats == analyze_container_health(history_24h, config)
        problems == identify_problematic_containers(container_stats)
        top_resources == get_top_resource_consumers(container_stats, config)
        analysis == [timestamp |-> isoformat(t),
                     trends |-> trends,
                     problems |-> problems,
                     top_resources |-> top_resources,
                     container_stats |-> container_stats]
    IN  IF window_exc(storage) # "none"
        THEN [file |-> storage, exit |-> 1,
              printed |-> [success |-> FALSE, error |-> window_exc(storage)]]
        ELSE IF history_24h = <<>>
        THEN [file |-> storage, exit |-> 1,
              printed |-> [error |-> "No data available"]]
        ELSE [file |-> storage, exit |-> 0,
              analysis |-> analysis,
              printed |-> generate_discord_embed(analysis, latest_entry[1])]

\* A reporter run: the window it read and what came of it.
ReportRun ==
    /\ LET run == reporter_main(file, now, ReportingConfig)
       IN  /\ file' = run.file
           /\ ret' = IF window_exc(HealthStorage(file)) # "none"
                     THEN Raised("reporter_main", load_history(file), <<>>,
                                 window_exc(HealthStorage(file)))
                     ELSE Call("reporter_main", load_history(file),
                               <<get_last_24h(HealthStorage(file), now)>>, <<run>>)
    /\ UNCHANGED <<now, nextId, concVars, pureVars>>

\* analyze_24h_trends called on the window get_last_24h returns.
AnalyzeTrends ==
    /\ window_exc(file) = "none"
    /\ ret' = Call("analyze_24h_trends", load_history(file),
                   <<get_last_24h(file, now)>>,
                   <<analyze_24h_trends(get_last_24h(file, now))>>)
    /\ UNCHANGED <<now, file, nextId, concVars, pureVars>>

NextReport ==
    \/ Tick
    \/ Unlink
    \/ AddEntry
    \/ AnalyzeTrends
    \/ ReportRun

SpecReport == Init /\ [][NextReport]_vars

----------------------------------------------------------------------------
(* A reporter run whose two reads are separate steps, beside add_entry     *)
(* calls of the monitor                                                    *)

\* main from line 418 on, given what the two reads returned: the no-data
\* result, the embed, or the error result of the except branch when
\* generate_discord_embed calls latest_entry.get on None.
report(history_24h, latest_entry, t, config) ==
    LET container_stats == analyze_container_health(history_24h, config)
        analysis == [timestamp |-> isoformat(t),
                     trends |-> analyze_24h_trends(history_24h),
                     problems |-> identify_problematic_containers(container_stats),
                     top_resources |-> get_top_resource_consumers(container_stats, config),
                     container_stats |-> container_stats]
    IN  IF history_24h = <<>>
        THEN [exit |-> 1, printed |-> [error |-> "No data available"]]
        ELSE IF latest_entry = <<>>
        THEN [exit |-> 1, printed |-> [success |-> FALSE, error |-> "AttributeError"]]
        ELSE [exit |-> 0, printed |-> generate_discord_embed(analysis, latest_entry[1])]

\* Line 415: history_24h = storage.get_last_24h()
RWindow ==
    /\ rep = NoRun
    /\ rep' = [done |-> FALSE, at |-> now, seen |-> load_history(file),
               history_24h |-> get_last_24h(file, now)]
    /\ UNCHANGED <<storeVars, concVars, thr, mon>>

\* Line 416: latest_entry = storage.get_latest_entry(), and the rest of the
\* run, which reads the file no more.
RLatest ==
    /\ ~rep.done
    /\ "history_24h" \in DOMAIN rep
    /\ LET latest_entry == get_latest_entry(file)
           run == report(rep.history_24h, latest_entry, rep.at, ReportingConfig)
       IN  rep' = [done |-> TRUE, at |-> rep.at, seen |-> rep.seen,
                   history_24h |-> rep.history_24h,
                   latest_entry |-> latest_entry,
                   exit |-> run.exit, printed |-> run.printed]
    /\ UNCHANGED <<storeVars, concVars, thr, mon>>

NextSnapshot ==
    \/ \E p \in Writers : CLoad(p)
    \/ \E p \in Writers : COpen(p)
    \/ \E p \in Writers : CDump(p)
    \/ RWindow
    \/ RLatest

SpecSnapshot == InitConc /\ [][NextSnapshot]_vars

\* C26: in a reporter run the two reads see the same store: when the
\* window is not empty, the latest entry handed to generate_discord_embed is
\* there and is an entry of the history the window was taken from, also
\* when add_entry calls of the monitor overlap the run.
C26_ConsistentSnapshot ==
    (rep.done /\ rep.history_24h # <<>>) =>
        /\ rep.latest_entry # <<>>
        /\ rep.latest_entry[1] \in Range(rep.seen)

----------------------------------------------------------------------------
(* The monitor every hour for a day, then the reporter *)

MaxDowns == 2

Downs(history) ==
    Len(SelectSeq(history, LAMBDA e : e.containers[1].status # "running"))

\* The host the monitor runs on.
HostMetrics ==
    [cpu_percent |-> 50, ram_percent |-> 50,
     disks |-> <<[mount |-> 1, used_percent |-> 50]>>]

InitDay ==
    /\ now = 0
    /\ file = JsonFile(<<>>)
    /\ nextId = 1
    /\ ret = NoCall
    /\ ConcIdle
    /\ PureIdle

\* The monitor run of this hour, one of Last24h: container web is running or
\* has exited (in MaxDowns runs at most), and Docker has restarted it twice
\* after each run that found it exited.
HourlyRun ==
    /\ nextId = now + 1
    /\ nextId <= Last24h
    /\ \E status \in {"running", "exited"} :
          /\ status = "exited" => Downs(load_history(file)) < MaxDowns
          /\ LET web == ContainerRecord("web", status, "none",
                                        2 * Downs(load_history(file)))
                 run == main(file, HostMetrics, "ok", <<web>>, FALSE, "ok", nextId, now)
             IN  /\ file' = run.file
                 /\ ret' = Call("monitor_main", load_history(file), <<>>, <<>>)
    /\ nextId' = nextId + 1
    /\ UNCHANGED <<now, concVars, pureVars>>

\* The next hour begins, up to an hour past the day.
NextHour ==
    /\ nextId > now + 1
    /\ now <= Last24h
    /\ now' = now + 1
    /\ ret' = NoCall
    /\ UNCHANGED <<file, nextId, concVars, pureVars>>

NextDay ==
    \/ HourlyRun
    \/ NextHour
    \/ ReportRun

SpecDay == InitDay /\ [][NextDay]_vars

----------------------------------------------------------------------------
(* Claims about the reporter run *)

NoData == [error |-> "No data available"]

\* C16: analyze_24h_trends on an empty window returns the no-data indicator
\* and no cpu or ram statistics, and a reporter run whose 24-hour window is
\* empty ends with the no-data result and exit code 1, with no analysis and
\* no embed made of the window.
C16_EmptyWindowHandling ==
    /\ (Returned("analyze_24h_trends") /\ ret.arg[1] = <<>>) =>
          ret.out[1] = NoData
    /\ (Returned("reporter_main") /\ ret.arg[1] = <<>>) =>
          /\ ret.out[1].exit = 1
          /\ ret.out[1].printed = NoData
          /\ "analysis" \notin DOMAIN ret.out[1]

\* A reporter run on a store whose entries are all older than 24 hours.
C16_Witness ==
    /\ Returned("reporter_main")
    /\ ret.arg[1] = <<>>
    /\ \E e \in Range(ret.pre) : Parses(e)
    /\ ret.out[1].exit = 1

WebStats(container_stats) ==
    CHOOSE st \in Range(container_stats) : st.name = "web"

\* The run of the reporter that C17 is about: 24 hourly snapshots stored,
\* the first of them no more than 24 hours old, web not running in 2 of
\* them, 4 the highest restart count.
DayOfTwoOutages ==
    /\ Returned("reporter_main")
    /\ Len(ret.pre) = Last24h
    /\ \A i \in 1..Len(ret.pre) : TimeOf(ret.pre[i]) = TimeOf(ret.pre[1]) + (i - 1)
    /\ ret.at - TimeOf(ret.pre[1]) <= Last24h
    /\ Downs(ret.pre) = 2
    /\ \E i \in 1..Len(ret.pre) : ret.pre[i].containers[1].restarts = 4
    /\ \A i \in 1..Len(ret.pre) : ret.pre[i].containers[1].restarts <= 4

\* C17: after 24 hourly snapshots in which container web is not running in
\* 2 and its highest restart count is 4, the reporter's analysis of
\* get_last_24h covers the 24 snapshots and reports web with
\* uptime_percent 91.67, 4 restarts and severity warning.
C17_DayOfSnapshots ==
    DayOfTwoOutages =>
        LET analysis == ret.out[1].analysis
            web == WebStats(analysis.container_stats)
        IN  /\ ret.arg[1] = ret.pre
            /\ web.uptime_percent = 9167
            /\ web.total_restarts = 4
            /\ \E p \in Range(analysis.problems) :
                  p.name = "web" /\ p.severity = "warning"

\* Such a run, made 24 hours after the first snapshot.
C17_Witness ==
    /\ DayOfTwoOutages
    /\ ret.at - TimeOf(ret.pre[1]) = Last24h
    /\ ret.out[1].exit = 0

====
